---- MODULE Spec2Model ----
(***************************************************************************)
(* Model of the retrieval-and-generation pipeline of DS1.py:               *)
(*   split_into_chunks, DocumentRetriever.get_relevant_docs,               *)
(*   generate_response, format_context, clean_response and main,           *)
(* and of the batch download of WorkWithDb/FileDownloader.py.              *)
(*                                                                         *)
(* A text is the sequence of the lengths of its sentences (the units       *)
(* sent_tokenize yields); a unit is [id, len], id being its position.      *)
(* A passage is the sequence of the units that " ".join glues together.    *)
(* Similarity scores are hundredths (0.25 is 25).                          *)
(* A string (a response, a context) is the sequence of its pieces; a       *)
(* piece is [ch, len]: what it reads and how many characters it has.       *)
(*                                                                         *)
(* Specifications: Spec (main with its start-up and its loop), SpecRetr    *)
(* (get_relevant_docs), SpecChunk (split_into_chunks), SpecClean           *)
(* (clean_response), SpecContext (format_context), SpecDownload            *)
(* (download_files and process_files), SpecQueries (the loop of main with  *)
(* the weights of the retriever fixed), SpecRestore                        *)
(* (execute_restoration_sequence of WorkWithDb/RestoreDb.py and            *)
(* WorkWithDb/ResroreDb.py).                                               *)
(***************************************************************************)
EXTENDS Integers, Sequences, FiniteSets, TLC

\* ---------------------------------------------------------------- bounds
MaxUnits == 6
MaxDocs == 2
MaxPool == 5
MaxTopK == 3
MaxSessionPool == 3
MaxRaw == 2
MaxInputs == 2
MaxClean == 3
MaxBlocks == 3
MaxFiles == 3
MaxQueryPool == 2
MaxDumps == 3

\* ------------------------------------------------------ program constants
DEFAULT_CHUNK_SIZE == 300
CHUNKS_PER_DOC == 5
DEFAULT_TOP_K == 3
THRESHOLD == 25
CLEAN_CAP == 1000
SENTENCE_CAP == 10

\* lengths of the sentences the inputs are built from, and target sizes
UnitLens == {1, 150, 301}
ChunkSizes == {0, 150, 300}

VARIABLES
    text,          \* split_into_chunks: the text argument
    chunk_size,    \* split_into_chunks: the chunk_size argument
    punkt_ok,      \* whether sent_tokenize works (punkt data available)
    encoder,       \* self.retriever: the scores its weights fix, by query
    split_pc,      \* "call" | "returned" | "raised"
    split_out,     \* the chunks split_into_chunks returned
    documents,     \* the loaded corpus: a sequence of [name, text]
    query,         \* get_relevant_docs: the query argument
    top_k,         \* get_relevant_docs: the top_k argument
    chunks,        \* get_relevant_docs: the candidate pool built so far
    similarities,  \* get_relevant_docs: the score of every pool passage
    top_indices,   \* get_relevant_docs: argsort(similarities)[-top_k:][::-1]
    relevant_docs, \* get_relevant_docs: the value returned
    enc_calls,     \* the calls of self.retriever.encode made, in order
    retr_error,    \* the step whose exception logging.error reported, or "none"
    retr_pc,       \* "call" | "returned" | "raised"
    pc,            \* main and generate_response: the position in the code
    context,       \* generate_response: format_context(relevant_docs)
    gen_calls,     \* the calls of model.generate made for the current query
    result,        \* generate_response: tokenizer.decode(outputs[0])
    gen_error,     \* the step whose exception line 156 logged, or "none"
    response,      \* the value generate_response returned
    printed,       \* what main printed for the current query
    main_error,    \* the exception main caught (lines 186-225), or "none"
    corpus_file,   \* the file DOCUMENTS_JSON: [state, docs]
    user_query,    \* main: the line input() returned, stripped
    input_calls,   \* the calls of input() made so far
    steps,         \* the calls generate_response made for the current query
    dl_files,      \* FileDownloader: the rows of the batch
    dl_mode,       \* the method that runs the batch
    dl_disk,       \* the download directory: the state of each file
    dl_disk0,      \* the download directory when the run began
    dl_pc,         \* "idle" | "start" | "loop" | "pool" | "done" | "aborted"
    dl_next,       \* download_files: the row the loop is at
    dl_pending,    \* process_files: the futures that are not done
    dl_outcome,    \* what the call of download_file did for each file
    dl_requests,   \* the files requests.get was called for in this run
    dl_errors,     \* the files an error was logged or recorded for, in order
    dl_prev,       \* how the run before this one ended, or "none"
    restorer,      \* execute_restoration_sequence: the file whose DatabaseRestorer runs
    dumps,         \* execute_restoration_sequence: the dumps argument
    success,       \* execute_restoration_sequence: the local success
    rs_next,       \* the position in dumps the for loop is at
    rs_pc,         \* "idle" | "loop" | "break" | "returned" | "raised"
    rs_calls,      \* the calls of restore_database made, in order: [dump, outcome]
    rs_return      \* the value execute_restoration_sequence returned

chunkVars == <<text, chunk_size, split_pc, split_out>>
retrVars == <<query, top_k, chunks, similarities, top_indices, relevant_docs,
              enc_calls, retr_error, retr_pc>>
sessVars == <<pc, context, gen_calls, result, gen_error, response, printed, main_error,
              corpus_file, user_query, input_calls, steps>>
dlVars == <<dl_files, dl_mode, dl_disk, dl_disk0, dl_pc, dl_next, dl_pending,
            dl_outcome, dl_requests, dl_errors, dl_prev>>
rsVars == <<restorer, dumps, success, rs_next, rs_pc, rs_calls, rs_return>>
vars == <<chunkVars, punkt_ok, encoder, documents, retrVars, sessVars, dlVars, rsVars>>

\* ------------------------------------------------------------- sequences
RECURSIVE SumLen(_)
\* sum of len(u) over the units of a sequence
SumLen(us) ==
    IF us = <<>> THEN 0 ELSE us[1].len + SumLen(Tail(us))

RECURSIVE Flatten(_)
\* the units of a sequence of passages, in passage order
Flatten(cs) ==
    IF cs = <<>> THEN <<>> ELSE cs[1] \o Flatten(Tail(cs))

RECURSIVE SeqsUpTo(_, _)
\* all sequences over S of length at most n
SeqsUpTo(S, n) ==
    IF n = 0 THEN {<<>>}
    ELSE LET shorter == SeqsUpTo(S, n - 1)
         IN  shorter \cup {Append(s, x) : s \in {t \in shorter : Len(t) = n - 1}, x \in S}

Min(a, b) == IF a < b THEN a ELSE b
Max(a, b) == IF a > b THEN a ELSE b

\* ---------------------------------------------------- split_into_chunks
\* sent_tokenize(text): one unit per sentence, whitespace between them dropped
sent_tokenize(t) ==
    [i \in 1..Len(t) |-> [id |-> i, len |-> t[i]]]

\* len(text): the sentences and one separating blank between neighbours
RawLen(t) ==
    IF t = <<>> THEN 0 ELSE SumLen(sent_tokenize(t)) + (Len(t) - 1)

\* [text[i:i + chunk_size] for i in range(0, len(text), chunk_size)], size > 0
FixedSlices(t, size) ==
    LET n == RawLen(t)
        k == (n + size - 1) \div size
    IN  [i \in 1..k |-> [id |-> i, len |-> Min(size, n - (i - 1) * size)]]

\* range(0, len(text), 0) raises ValueError inside the except handler
SplitRaises(t, size, tok) ==
    ~tok /\ size = 0

\* the units the text is segmented into (lines 35-39)
Segment(t, size, tok) ==
    IF tok THEN sent_tokenize(t) ELSE FixedSlices(t, size)

\* len(" ".join(chunk)): the units and the blanks inserted between them
JoinedLen(chunk) ==
    IF chunk = <<>> THEN 0 ELSE SumLen(chunk) + (Len(chunk) - 1)

\* a loop body that forgets the unit that overflows the current chunk
ChunkStepDropping(st, sent, size) ==
    IF st.current_length + sent.len > size /\ st.current_chunk # <<>>
    THEN [chunks |-> Append(st.chunks, st.current_chunk),
          current_chunk |-> <<>>, current_length |-> 0]
    ELSE [chunks |-> st.chunks,
          current_chunk |-> Append(st.current_chunk, sent),
          current_length |-> st.current_length + sent.len]

\* a loop body that closes the current chunk at every unit
ChunkStepEager(st, sent, size) ==
    LET flush == st.current_chunk # <<>>
        cs == IF flush THEN Append(st.chunks, st.current_chunk) ELSE st.chunks
        cc == IF flush THEN <<>> ELSE st.current_chunk
        cl == IF flush THEN 0 ELSE st.current_length
    IN  [chunks |-> cs,
         current_chunk |-> Append(cc, sent),
         current_length |-> cl + sent.len]

\* one iteration of the loop of lines 45-52
ChunkStep(st, sent, size) ==
    LET flush == st.current_length + sent.len > size /\ st.current_chunk # <<>>
        cs == IF flush THEN Append(st.chunks, st.current_chunk) ELSE st.chunks
        cc == IF flush THEN <<>> ELSE st.current_chunk
        cl == IF flush THEN 0 ELSE st.current_length
    IN  [chunks |-> cs,
         current_chunk |-> Append(cc, sent),
         current_length |-> cl + sent.len]

RECURSIVE ChunkLoop(_, _, _)
\* the for loop of lines 45-52 over the sentences
ChunkLoop(st, sents, size) ==
    IF sents = <<>> THEN st
    ELSE ChunkLoop(ChunkStep(st, sents[1], size), Tail(sents), size)

\* split_into_chunks(text, chunk_size) when it returns
split_into_chunks(t, size, tok) ==
    LET st0 == [chunks |-> <<>>, current_chunk |-> <<>>, current_length |-> 0]
        st == ChunkLoop(st0, Segment(t, size, tok), size)
    IN  IF st.current_chunk # <<>> THEN Append(st.chunks, st.current_chunk)
        ELSE st.chunks

\* ------------------------------------------------------ get_relevant_docs
\* the scores the encoder and np.dot can give a passage, in hundredths
Scores == {24, 25}
Queries == {"q1", "q2"}

\* the state of the retriever before a call
RetrIdle ==
    /\ query = "q1"
    /\ top_k = DEFAULT_TOP_K
    /\ chunks = <<>>
    /\ similarities = <<>>
    /\ top_indices = <<>>
    /\ relevant_docs = <<>>
    /\ enc_calls = <<>>
    /\ retr_error = "none"
    /\ retr_pc = "call"

\* a string is the sequence of its pieces; a piece is what it reads and the
\* number of its characters
Piece(c, n) ==
    [ch |-> c, len |-> n]

\* the answers that are not generated text (lines 120 and 157); each of the
\* two is one sentence, written here in Latin letters
NOT_FOUND == <<Piece("Informaciya ne najdena", 21)>>
ERROR_MSG == <<Piece("Proizoshla oshibka pri obrabotke zaprosa", 38)>>
\* what line 225 prints
MAIN_ERROR == <<Piece("Oshibka obrabotki zaprosa", 24)>>

\* the locals of main and generate_response before the first query
SessFresh ==
    /\ context = <<>>
    /\ gen_calls = 0
    /\ result = <<>>
    /\ gen_error = "none"
    /\ response = <<>>
    /\ printed = <<>>
    /\ main_error = "none"
    /\ user_query = ""
    /\ input_calls = 0
    /\ steps = <<>>

\* the state of main when the start-up is over and no query was read yet
SessIdle ==
    /\ pc = "AWAIT_QUERY"
    /\ corpus_file = [state |-> "ok", docs |-> documents]
    /\ SessFresh

\* no restoration is running
rsIdle ==
    /\ restorer = "RestoreDb"
    /\ dumps = <<>>
    /\ success = TRUE
    /\ rs_next = 1
    /\ rs_pc = "idle"
    /\ rs_calls = <<>>
    /\ rs_return = TRUE

\* the downloader is not running
dlIdle ==
    /\ dl_files = <<>>
    /\ dl_mode = "download_files"
    /\ dl_disk = <<>>
    /\ dl_disk0 = <<>>
    /\ dl_pc = "idle"
    /\ dl_next = 1
    /\ dl_pending = {}
    /\ dl_outcome = <<>>
    /\ dl_requests = {}
    /\ dl_errors = <<>>
    /\ dl_prev = "none"

Reverse(s) ==
    [i \in 1..Len(s) |-> s[Len(s) + 1 - i]]

\* Python's s[start:] for any integer start
PySliceFrom(s, start) ==
    LET n == Len(s)
        b == IF start < 0 THEN Max(n + start, 0) ELSE Min(start, n)
    IN  SubSeq(s, b + 1, n)

\* text_chunks[-5:]: the last five passages of the document instead of the first
KeepLast(text_chunks) ==
    PySliceFrom(text_chunks, 0 - CHUNKS_PER_DOC)

\* text_chunks[:5] (line 73)
KeepFirst(text_chunks) ==
    SubSeq(text_chunks, 1, Min(CHUNKS_PER_DOC, Len(text_chunks)))

\* the passages one document adds to the pool (lines 70-77)
DocPassages(doc, tok) ==
    LET kept == KeepFirst(split_into_chunks(doc.text, DEFAULT_CHUNK_SIZE, tok))
    IN  [i \in 1..Len(kept) |-> [name |-> <<doc.name, i>>, text |-> kept[i]]]

RECURSIVE BuildPool(_, _)
\* the loop of lines 69-77 over the documents
BuildPool(docs, tok) ==
    IF docs = <<>> THEN <<>>
    ELSE DocPassages(docs[1], tok) \o BuildPool(Tail(docs), tok)

RECURSIVE SortsOf(_, _)
\* every order of the indices in rest that is ascending by score
SortsOf(sim, rest) ==
    IF rest = {} THEN {<<>>}
    ELSE LET lows == {i \in rest : \A j \in rest : sim[i] <= sim[j]}
         IN  UNION {{<<i>> \o r : r \in SortsOf(sim, rest \ {i})} : i \in lows}

\* np.argsort(similarities): the default sort is not stable, so equal scores
\* may come out in any order
ArgSorts(sim) ==
    SortsOf(sim, 1..Len(sim))

\* np.argsort(similarities)[-top_k:][::-1] for one outcome of argsort (line 84)
TopIndices(order, k) ==
    Reverse(PySliceFrom(order, 0 - k))

\* a gate that lets every ranked result through
GateOpen(best, sim, top) ==
    best

\* best_chunks if similarities[top_indices[0]] >= 0.25 else [] (line 87)
Gate(best, sim, top) ==
    IF sim[top[1]] >= THRESHOLD THEN best ELSE <<>>

\* a handler that lets the exception go on to the caller
HandlerReraises == "raised"

\* except Exception: logging.error(...); return [] (lines 89-91)
HandlerOutcome == "returned"

\* a pool check that is never taken: the passages are encoded even when
\* there are none
PoolIsEmptyNever(pool) ==
    FALSE

\* if not chunks: return [] (lines 79-80)
PoolIsEmpty(pool) ==
    pool = <<>>

\* an exception at step `at`, with the pool and the encoder calls so far
RetrFail(q, k, at, pool, calls) ==
    /\ query' = q
    /\ top_k' = k
    /\ chunks' = pool
    /\ similarities' = <<>>
    /\ top_indices' = <<>>
    /\ relevant_docs' = <<>>
    /\ enc_calls' = calls
    /\ retr_error' = at
    /\ retr_pc' = HandlerOutcome

\* line 66 raises
RetrFailEncodeQuery(q, k) ==
    RetrFail(q, k, "encode_query", <<>>, <<"query">>)

\* the loop of lines 69-77 raises at document j (doc.get on a malformed entry)
RetrFailChunking(q, k) ==
    \E j \in 1..Len(documents) :
        RetrFail(q, k, "chunking", BuildPool(SubSeq(documents, 1, j - 1), punkt_ok),
                 <<"query">>)

\* line 82 raises
RetrFailEncodeChunks(q, k) ==
    LET pool == BuildPool(documents, punkt_ok)
    IN  /\ ~PoolIsEmpty(pool)
        /\ RetrFail(q, k, "encode_chunks", pool, <<"query", "chunks">>)

\* line 83 raises
RetrFailDot(q, k) ==
    LET pool == BuildPool(documents, punkt_ok)
    IN  /\ ~PoolIsEmpty(pool)
        /\ RetrFail(q, k, "dot", pool, <<"query", "chunks">>)

\* lines 79-80: no passages, return [] before the passages are encoded
RetrEmptyPool(q, k) ==
    LET pool == BuildPool(documents, punkt_ok)
    IN  /\ PoolIsEmpty(pool)
        /\ query' = q
        /\ top_k' = k
        /\ chunks' = pool
        /\ similarities' = <<>>
        /\ top_indices' = <<>>
        /\ relevant_docs' = <<>>
        /\ enc_calls' = <<"query">>
        /\ retr_error' = "none"
        /\ retr_pc' = "returned"

\* lines 82-83: the scores self.retriever gives the passages of the pool for
\* the query; the weights loaded at line 62 fix them for the queries encoder
\* has, any other query may get any scores
ScoresOf(q, pool) ==
    IF q \in DOMAIN encoder THEN {encoder[q]} ELSE [1..Len(pool) -> Scores]

\* lines 82-87: encode, score, rank, gate
RetrRank(q, k) ==
    LET pool == BuildPool(documents, punkt_ok)
    IN  /\ ~PoolIsEmpty(pool)
        /\ \E sim \in ScoresOf(q, pool) :
           \E order \in ArgSorts(sim) :
             LET top == TopIndices(order, k)
                 best == [i \in 1..Len(top) |-> pool[top[i]]]
             IN  /\ query' = q
                 /\ top_k' = k
                 /\ chunks' = pool
                 /\ similarities' = sim
                 /\ top_indices' = top
                 /\ enc_calls' = <<"query", "chunks">>
                 /\ IF top = <<>>
                    THEN \* top_indices[0] raises IndexError
                         /\ relevant_docs' = <<>>
                         /\ retr_error' = "gate"
                         /\ retr_pc' = HandlerOutcome
                    ELSE /\ relevant_docs' = Gate(best, sim, top)
                         /\ retr_error' = "none"
                         /\ retr_pc' = "returned"

\* DocumentRetriever.get_relevant_docs(query, documents, top_k) (lines 64-91)
get_relevant_docs(q, k) ==
    \/ RetrFailEncodeQuery(q, k)
    \/ RetrFailChunking(q, k)
    \/ RetrFailEncodeChunks(q, k)
    \/ RetrFailDot(q, k)
    \/ RetrEmptyPool(q, k)
    \/ RetrRank(q, k)

\* ------------------------------------------------ the retriever on its own
\* the texts of the documents: empty, one passage of two sentences, two
\* over-long sentences, and MaxUnits over-long sentences
DocTexts ==
    {<<>>, <<150, 150>>, <<301, 301>>, [i \in 1..MaxUnits |-> 301]}

\* corpora of at most MaxDocs documents whose pool has at most MaxPool passages
Corpora ==
    {[i \in 1..Len(ts) |-> [name |-> i, text |-> ts[i]]] :
        ts \in {c \in SeqsUpTo(DocTexts, MaxDocs) :
                  \A tok \in BOOLEAN :
                    Len(BuildPool([i \in 1..Len(c) |-> [name |-> i, text |-> c[i]]], tok))
                        <= MaxPool}}

ChunkIdle ==
    /\ text = <<>>
    /\ chunk_size = DEFAULT_CHUNK_SIZE
    /\ split_pc = "call"
    /\ split_out = <<>>

InitRetr ==
    /\ dlIdle
    /\ rsIdle
    /\ documents \in Corpora
    /\ punkt_ok \in BOOLEAN
    /\ encoder = <<>>
    /\ ChunkIdle
    /\ RetrIdle
    /\ SessIdle

\* a direct call of get_relevant_docs with any top_k
RetrCall ==
    /\ retr_pc = "call"
    /\ \E k \in 0..MaxTopK : get_relevant_docs("q1", k)
    /\ UNCHANGED <<rsVars, dlVars, chunkVars, punkt_ok, encoder, documents, sessVars>>

NextRetr == RetrCall

SpecRetr == InitRetr /\ [][NextRetr]_vars

\* ------------------------------------------------------ generate_response
\* the pieces the strings of the model are made of: a short and a long
\* sentence, each ending in a full stop; a blank; the control character
\* \x07; the role marker; a page marker; the two halves of a page marker,
\* which read as one when they stand side by side; a footnote marker
Short == Piece("Da.", 3)
Long == Piece("A sentence of 600 characters.", 600)
Blank == Piece(" ", 1)
Bell == Piece("\\x07", 1)
Marker == Piece("<|im_start|>assistant", 21)
Page == Piece("[1.2.3]", 7)
PageOpen == Piece("[1.", 3)
PageClose == Piece("2.3]", 4)
Dots == Piece("...12...", 8)

\* the decoded output of the model in a session
RawTokens == {Short, Marker, Page}
RawOutputs == SeqsUpTo(RawTokens, MaxRaw)

RECURSIVE CharLen(_)
\* len(s)
CharLen(str) ==
    IF str = <<>> THEN 0 ELSE str[1].len + CharLen(Tail(str))

RECURSIVE PyPrefix(_, _)
\* s[:n]: a piece the cut falls into keeps its first characters only
PyPrefix(str, n) ==
    IF str = <<>> \/ n <= 0 THEN <<>>
    ELSE IF str[1].len <= n THEN <<str[1]>> \o PyPrefix(Tail(str), n - str[1].len)
    ELSE <<Piece(str[1].ch, n)>>

RECURSIVE Without(_, _)
\* re.sub(pattern, '', s) for a pattern that is one piece
Without(str, tk) ==
    IF str = <<>> THEN <<>>
    ELSE IF str[1] = tk THEN Without(Tail(str), tk)
    ELSE <<str[1]>> \o Without(Tail(str), tk)

RECURSIVE StripPages(_)
\* re.sub(r'\[\d+\.\d+\.\d+\]', '', s): one pass from the left over the
\* matches that do not overlap; what the removals bring together is not
\* looked at again
StripPages(str) ==
    IF str = <<>> THEN <<>>
    ELSE IF str[1] = Page THEN StripPages(Tail(str))
    ELSE IF Len(str) >= 2 /\ str[1] = PageOpen /\ str[2] = PageClose
         THEN StripPages(SubSeq(str, 3, Len(str)))
    ELSE <<str[1]>> \o StripPages(Tail(str))

RECURSIVE LStrip(_)
\* s.lstrip()
LStrip(str) ==
    IF str # <<>> /\ str[1] = Blank THEN LStrip(Tail(str)) ELSE str

RECURSIVE RStrip(_)
\* s.rstrip()
RStrip(str) ==
    IF str # <<>> /\ str[Len(str)] = Blank THEN RStrip(SubSeq(str, 1, Len(str) - 1))
    ELSE str

\* s.strip()
Strip(str) ==
    RStrip(LStrip(str))

\* '<|im_start|>assistant' in response (line 171)
HasMarker(str) ==
    \E i \in 1..Len(str) : str[i] = Marker

\* response.split('<|im_start|>assistant')[-1] (line 172)
AfterLastMarker(str) ==
    LET ms == {i \in 1..Len(str) : str[i] = Marker}
    IN  IF ms = {} THEN str
        ELSE LET last == CHOOSE i \in ms : \A j \in ms : j <= i
             IN  SubSeq(str, last + 1, Len(str))

\* a piece that ends a sentence
EndsSentence(p) ==
    p \in {Short, Long}

RECURSIVE SentLoop(_, _, _)
\* the sentences of rest, cur being the sentence read so far: a sentence
\* ends at a full stop that blanks and more text follow; those blanks are
\* dropped, and so are the blanks at the end of the text
SentLoop(rest, cur, out) ==
    IF rest = <<>>
    THEN IF RStrip(cur) = <<>> THEN out ELSE Append(out, RStrip(cur))
    ELSE IF cur # <<>> /\ EndsSentence(cur[Len(cur)]) /\ rest[1] = Blank
              /\ LStrip(rest) # <<>>
         THEN SentLoop(LStrip(rest), <<>>, Append(out, cur))
    ELSE SentLoop(Tail(rest), Append(cur, rest[1]), out)

\* sent_tokenize(response) (line 176), on a string
Sentences(str) ==
    SentLoop(str, <<>>, <<>>)

RECURSIVE JoinBlank(_)
\* ' '.join(sentences) (line 177)
JoinBlank(sents) ==
    IF sents = <<>> THEN <<>>
    ELSE IF Len(sents) = 1 THEN sents[1]
    ELSE sents[1] \o <<Blank>> \o JoinBlank(Tail(sents))

\* sentences[-10:]: the last ten sentences instead of the first
LastSentences(sents) ==
    PySliceFrom(sents, 0 - SENTENCE_CAP)

\* sentences[:10] (line 177)
FirstSentences(sents) ==
    SubSeq(sents, 1, Min(SENTENCE_CAP, Len(sents)))

\* the response after lines 171-174: what follows the last role marker,
\* trimmed, if there is a marker, and the page markers removed
Stripped(raw) ==
    StripPages(IF HasMarker(raw) THEN Strip(AfterLastMarker(raw)) ELSE raw)

\* clean_response(response, query) (lines 169-179); when sent_tokenize
\* raises, the bare except returns the first 1000 characters of the response
\* as lines 171-174 left it
clean_response(raw, tok) ==
    IF tok THEN JoinBlank(FirstSentences(Sentences(Stripped(raw))))
    ELSE PyPrefix(Stripped(raw), CLEAN_CAP)

\* what stands before the name in a block of the context (line 165)
DocIcon == Piece("U+1F4C4 ", 2)
ColonNewline == Piece(":\\n", 2)
BlankLine == Piece("\\n\\n", 2)

\* the name of a passage, as a piece of a string
Label(name) ==
    [ch |-> "name", name |-> name]

\* a block whose text is left as it is
BlockUncleaned(chunk) ==
    <<DocIcon, Label(chunk.name), ColonNewline>> \o chunk.text

\* lines 163-165: the two re.sub and the f-string of one passage
Block(chunk) ==
    <<DocIcon, Label(chunk.name), ColonNewline>>
        \o StripPages(Without(chunk.text, Dots))

RECURSIVE JoinBlocks(_)
\* "\n\n".join(cleaned) (line 166)
JoinBlocks(blocks) ==
    IF blocks = <<>> THEN <<>>
    ELSE IF Len(blocks) = 1 THEN blocks[1]
    ELSE blocks[1] \o <<BlankLine>> \o JoinBlocks(Tail(blocks))

\* format_context(chunks) (lines 160-166)
format_context(cs) ==
    JoinBlocks([i \in 1..Len(cs) |-> Block(cs[i])])

\* an order of the steps in which the decoded text is returned as it is
NextStepSkipsCleaning(p) ==
    CASE p = "CONTEXT" -> "TOKENIZE"
      [] p = "TOKENIZE" -> "GENERATE"
      [] p = "GENERATE" -> "DECODE"
      [] p = "DECODE" -> "RETURNED"

\* the steps of lines 122-153, in order
NextStep(p) ==
    CASE p = "CONTEXT" -> "TOKENIZE"
      [] p = "TOKENIZE" -> "GENERATE"
      [] p = "GENERATE" -> "DECODE"
      [] p = "DECODE" -> "CLEANING"

\* the answer of lines 155-157
GenHandlerAnswer == ERROR_MSG

\* a handler of generate_response that lets the exception go on to main
GenHandlerReraises == "HANDLER"

\* except Exception: ... return (lines 155-157)
GenHandlerOutcome == "RETURNED"

\* an exception at step `at` of generate_response reaches line 155
GenFails(at) ==
    /\ gen_error' = at
    /\ pc' = GenHandlerOutcome
    /\ IF GenHandlerOutcome = "RETURNED"
       THEN response' = GenHandlerAnswer /\ UNCHANGED main_error
       ELSE main_error' = "generate_response" /\ UNCHANGED response

\* what main does with an exception of the start-up: print it and carry on
StartupHandlerContinues == "AWAIT_QUERY"

\* print(...); return (lines 186-194 and 199-201)
StartupHandlerOutcome == "ABORTED"

\* the exceptions the start-up of main catches (lines 186, 189, 192, 199)
StartupFailures ==
    {"FileNotFoundError", "JSONDecodeError", "Exception", "DocumentRetriever", "init_llm"}

\* what open() and json.load() raise for a state of the corpus file
LoadError(state) ==
    CASE state = "missing" -> "FileNotFoundError"
      [] state = "malformed" -> "JSONDecodeError"
      [] state = "unreadable" -> "Exception"

\* main, lines 183-194: the corpus file is opened and parsed
LoadCorpus ==
    /\ pc = "LOAD_CORPUS"
    /\ IF corpus_file.state = "ok"
       THEN /\ documents' = corpus_file.docs
            /\ pc' = "INIT_MODELS"
            /\ UNCHANGED main_error
       ELSE /\ main_error' = LoadError(corpus_file.state)
            /\ pc' = StartupHandlerOutcome
            /\ UNCHANGED documents
    /\ UNCHANGED <<rsVars, dlVars, chunkVars, punkt_ok, encoder, corpus_file, retrVars, user_query, input_calls,
                   steps, context, gen_calls, result, gen_error, response, printed>>

\* main, lines 196-204: the encoder and the generator are loaded; init_llm
\* logs and re-raises (lines 110-112), main prints and returns
InitModels ==
    /\ pc = "INIT_MODELS"
    /\ \E outcome \in {"ok", "DocumentRetriever", "init_llm"} :
         IF outcome = "ok"
         THEN pc' = "AWAIT_QUERY" /\ UNCHANGED main_error
         ELSE main_error' = outcome /\ pc' = StartupHandlerOutcome
    /\ UNCHANGED <<rsVars, dlVars, chunkVars, punkt_ok, encoder, documents, corpus_file, retrVars, user_query,
                   input_calls, steps, context, gen_calls, result, gen_error,
                   response, printed>>

\* main, lines 208-210: a line is read; an empty one ends the loop
ReadQuery ==
    /\ pc = "AWAIT_QUERY"
    /\ input_calls < MaxInputs
    /\ input_calls' = input_calls + 1
    /\ \E q \in Queries \cup {""} :
         /\ user_query' = q
         /\ IF q = ""
            THEN /\ pc' = "EXITED"
                 /\ UNCHANGED <<retrVars, steps, context, gen_calls, result, gen_error,
                                response, printed, main_error>>
            ELSE /\ pc' = "RETRIEVING"
                 /\ query' = q
                 /\ top_k' = DEFAULT_TOP_K
                 /\ chunks' = <<>>
                 /\ similarities' = <<>>
                 /\ top_indices' = <<>>
                 /\ relevant_docs' = <<>>
                 /\ enc_calls' = <<>>
                 /\ retr_error' = "none"
                 /\ retr_pc' = "call"
                 /\ steps' = <<>>
                 /\ context' = <<>>
                 /\ gen_calls' = 0
                 /\ result' = <<>>
                 /\ gen_error' = "none"
                 /\ response' = <<>>
                 /\ printed' = <<>>
                 /\ main_error' = "none"
    /\ UNCHANGED <<rsVars, dlVars, chunkVars, punkt_ok, encoder, documents, corpus_file>>

\* main, line 208: input() raises EOFError at the end of the input
ReadQueryFails ==
    /\ pc = "AWAIT_QUERY"
    /\ input_calls < MaxInputs
    /\ input_calls' = input_calls + 1
    /\ main_error' = "input"
    /\ pc' = "HANDLER"
    /\ UNCHANGED <<rsVars, dlVars, chunkVars, punkt_ok, encoder, documents, corpus_file, retrVars, user_query,
                   steps, context, gen_calls, result, gen_error, response, printed>>

\* a handler of main that lets the exception end the process
MainHandlerReraises == "CRASHED"

\* the loop goes on after line 225
MainHandlerOutcome == "AWAIT_QUERY"

\* main, lines 224-225: the exception is printed and the loop goes on
MainHandler ==
    /\ pc = "HANDLER"
    /\ printed' = <<MAIN_ERROR>>
    /\ pc' = MainHandlerOutcome
    /\ UNCHANGED <<rsVars, dlVars, chunkVars, punkt_ok, encoder, documents, corpus_file, retrVars, user_query,
                   input_calls, steps, context, gen_calls, result, gen_error,
                   response, main_error>>

\* the positions of the loop at which a KeyboardInterrupt reaches line 222:
\* everywhere but inside clean_response, whose bare except swallows it
Interruptible ==
    {"AWAIT_QUERY", "RETRIEVING", "NO_MATCH", "CONTEXT", "TOKENIZE", "GENERATE",
     "DECODE", "RETURNED", "RESPONDED"}

\* main, lines 222-223: except KeyboardInterrupt: break (neither handler of
\* generate_response and get_relevant_docs catches it: except Exception)
Interrupt ==
    /\ pc \in Interruptible
    /\ pc = "AWAIT_QUERY" => input_calls < MaxInputs
    /\ input_calls' = IF pc = "AWAIT_QUERY" THEN input_calls + 1 ELSE input_calls
    /\ main_error' = "KeyboardInterrupt"
    /\ pc' = "EXITED"
    /\ UNCHANGED <<rsVars, dlVars, chunkVars, punkt_ok, encoder, documents, corpus_file, retrVars, user_query,
                   steps, context, gen_calls, result, gen_error, response, printed>>

\* a branch that goes on to the generation whatever was retrieved
AfterRetrievalAlwaysGenerates(docs) ==
    "CONTEXT"

\* if not relevant_docs: return ... (lines 119-120), else line 122
AfterRetrieval(docs) ==
    IF docs = <<>> THEN "NO_MATCH" ELSE "CONTEXT"

\* a retrieval that uses up the documents it has searched
RetrieveConsuming ==
    /\ pc = "RETRIEVING"
    /\ get_relevant_docs(query, DEFAULT_TOP_K)
    /\ steps' = Append(steps, "get_relevant_docs")
    /\ documents' = <<>>
    /\ IF retr_pc' = "raised"
       THEN GenFails("RETRIEVING")
       ELSE /\ pc' = AfterRetrieval(relevant_docs')
            /\ UNCHANGED <<gen_error, response, main_error>>
    /\ UNCHANGED <<rsVars, dlVars, chunkVars, punkt_ok, encoder, corpus_file, user_query, input_calls,
                   context, gen_calls, result, printed>>

\* line 117: retriever.get_relevant_docs(query, documents), and line 119
Retrieve ==
    /\ pc = "RETRIEVING"
    /\ get_relevant_docs(query, DEFAULT_TOP_K)
    /\ steps' = Append(steps, "get_relevant_docs")
    /\ IF retr_pc' = "raised"
       THEN GenFails("RETRIEVING")
       ELSE /\ pc' = AfterRetrieval(relevant_docs')
            /\ UNCHANGED <<gen_error, response, main_error>>
    /\ UNCHANGED <<rsVars, dlVars, chunkVars, punkt_ok, encoder, documents, corpus_file, user_query, input_calls,
                   context, gen_calls, result, printed>>

\* line 120: return the not-found answer
NoMatch ==
    /\ pc = "NO_MATCH"
    /\ response' = NOT_FOUND
    /\ pc' = "RETURNED"
    /\ UNCHANGED <<rsVars, dlVars, chunkVars, punkt_ok, encoder, documents, corpus_file, retrVars, user_query,
                   input_calls, steps, context, gen_calls, result, gen_error, printed,
                   main_error>>

\* line 122: context = format_context(relevant_docs), and the prompt
FormatContext ==
    /\ pc = "CONTEXT"
    /\ context' = format_context(relevant_docs)
    /\ steps' = Append(steps, "format_context")
    /\ pc' = NextStep(pc)
    /\ UNCHANGED <<rsVars, dlVars, chunkVars, punkt_ok, encoder, documents, corpus_file, retrVars, user_query,
                   input_calls, gen_calls, result, gen_error, response, printed,
                   main_error>>

\* line 140: tokenizer(prompt, ...).to(device)
Tokenize ==
    /\ pc = "TOKENIZE"
    /\ steps' = Append(steps, "tokenizer")
    /\ pc' = NextStep(pc)
    /\ UNCHANGED <<rsVars, dlVars, chunkVars, punkt_ok, encoder, documents, corpus_file, retrVars, user_query,
                   input_calls, context, gen_calls, result, gen_error, response,
                   printed, main_error>>

\* lines 142-151: model.generate(...)
Generate ==
    /\ pc = "GENERATE"
    /\ gen_calls' = gen_calls + 1
    /\ steps' = Append(steps, "model.generate")
    /\ pc' = NextStep(pc)
    /\ UNCHANGED <<rsVars, dlVars, chunkVars, punkt_ok, encoder, documents, corpus_file, retrVars, user_query,
                   input_calls, context, result, gen_error, response, printed,
                   main_error>>

\* line 153: result = tokenizer.decode(outputs[0], ...)
Decode ==
    /\ pc = "DECODE"
    /\ \E raw \in RawOutputs : result' = raw
    /\ steps' = Append(steps, "tokenizer.decode")
    /\ pc' = NextStep(pc)
    /\ UNCHANGED <<rsVars, dlVars, chunkVars, punkt_ok, encoder, documents, corpus_file, retrVars, user_query,
                   input_calls, context, gen_calls, gen_error, response, printed,
                   main_error>>

\* line 154: return clean_response(result, query); clean_response catches
\* whatever sent_tokenize raises itself
Clean ==
    /\ pc = "CLEANING"
    /\ response' = clean_response(result, punkt_ok)
    /\ steps' = Append(steps, "clean_response")
    /\ pc' = "RETURNED"
    /\ UNCHANGED <<rsVars, dlVars, chunkVars, punkt_ok, encoder, documents, corpus_file, retrVars, user_query,
                   input_calls, context, gen_calls, result, gen_error, printed,
                   main_error>>

\* lines 178-179: a KeyboardInterrupt that arrives inside clean_response is
\* swallowed by the bare except, which returns the first 1000 characters of
\* the response as the interrupted line left it
CleanSwallowsInterrupt ==
    /\ pc = "CLEANING"
    /\ \E left \in {result,
                    IF HasMarker(result) THEN Strip(AfterLastMarker(result)) ELSE result,
                    Stripped(result)} :
         response' = PyPrefix(left, CLEAN_CAP)
    /\ steps' = Append(steps, "clean_response")
    /\ pc' = "RETURNED"
    /\ UNCHANGED <<rsVars, dlVars, chunkVars, punkt_ok, encoder, documents, corpus_file, retrVars, user_query,
                   input_calls, context, gen_calls, result, gen_error, printed,
                   main_error>>

\* the step of generate_response a position stands for
StepName(p) ==
    CASE p = "CONTEXT" -> "format_context"
      [] p = "TOKENIZE" -> "tokenizer"
      [] p = "GENERATE" -> "model.generate"
      [] p = "DECODE" -> "tokenizer.decode"

\* a step of lines 122-153 raises; lines 155-157 answer for it
GenStepFails ==
    /\ pc \in {"CONTEXT", "TOKENIZE", "GENERATE", "DECODE"}
    /\ GenFails(pc)
    /\ gen_calls' = IF pc = "GENERATE" THEN gen_calls + 1 ELSE gen_calls
    /\ steps' = Append(steps, StepName(pc))
    /\ UNCHANGED <<rsVars, dlVars, chunkVars, punkt_ok, encoder, documents, corpus_file, retrVars, user_query,
                   input_calls, context, result, printed>>

\* main, lines 220-221: print(response[:2000]); the answers here are far
\* shorter than 2000 characters, so nothing is cut
PrintAnswer ==
    /\ pc = "RETURNED"
    /\ printed' = <<response>>
    /\ pc' = "RESPONDED"
    /\ UNCHANGED <<rsVars, dlVars, chunkVars, punkt_ok, encoder, documents, corpus_file, retrVars, user_query,
                   input_calls, steps, context, gen_calls, result, gen_error,
                   response, main_error>>

\* main, lines 220-221: print raises (the console cannot encode the answer)
PrintAnswerFails ==
    /\ pc = "RETURNED"
    /\ main_error' = "print"
    /\ pc' = "HANDLER"
    /\ UNCHANGED <<rsVars, dlVars, chunkVars, punkt_ok, encoder, documents, corpus_file, retrVars, user_query,
                   input_calls, steps, context, gen_calls, result, gen_error,
                   response, printed>>

\* main, line 206: while True, back to the input
LoopBack ==
    /\ pc = "RESPONDED"
    /\ pc' = "AWAIT_QUERY"
    /\ UNCHANGED <<rsVars, dlVars, chunkVars, punkt_ok, encoder, documents, corpus_file, retrVars, user_query,
                   input_calls, steps, context, gen_calls, result, gen_error,
                   response, printed, main_error>>

\* the corpora of a session: a pool of at most MaxSessionPool passages
SessionCorpora ==
    {c \in Corpora : \A tok \in BOOLEAN : Len(BuildPool(c, tok)) <= MaxSessionPool}

\* the corpus file main finds: a corpus, or no file, or a file that is not
\* JSON, or one that cannot be read
CorpusFiles ==
    {[state |-> "ok", docs |-> c] : c \in SessionCorpora}
    \cup {[state |-> s, docs |-> <<>>] : s \in {"missing", "malformed", "unreadable"}}

Init ==
    /\ dlIdle
    /\ rsIdle
    /\ corpus_file \in CorpusFiles
    /\ documents = <<>>
    /\ punkt_ok \in BOOLEAN
    /\ encoder = <<>>
    /\ ChunkIdle
    /\ RetrIdle
    /\ pc = "LOAD_CORPUS"
    /\ SessFresh

Next ==
    \/ LoadCorpus
    \/ InitModels
    \/ ReadQuery
    \/ ReadQueryFails
    \/ MainHandler
    \/ Interrupt
    \/ Retrieve
    \/ NoMatch
    \/ FormatContext
    \/ Tokenize
    \/ Generate
    \/ Decode
    \/ Clean
    \/ CleanSwallowsInterrupt
    \/ GenStepFails
    \/ PrintAnswer
    \/ PrintAnswerFails
    \/ LoopBack

Spec == Init /\ [][Next]_vars

\* ------------------------------- the loop of main with the weights fixed
\* the corpora of a session whose scores are fixed: every document has
\* text, and the pool has at most MaxQueryPool passages
QueryCorpora ==
    {c \in Corpora :
        /\ \A i \in 1..Len(c) : c[i].text # <<>>
        /\ \A tok \in BOOLEAN : Len(BuildPool(c, tok)) <= MaxQueryPool}

\* DocumentRetriever.__init__ (lines 60-62): the weights SentenceTransformer
\* loads give every query one score for each passage of the pool
Encoders(docs, tok) ==
    [Queries -> [1..Len(BuildPool(docs, tok)) -> Scores]]

\* main when the start-up is over (lines 183-204): the documents are loaded
\* and the retriever holds its weights
InitQueries ==
    /\ dlIdle
    /\ rsIdle
    /\ ChunkIdle
    /\ RetrIdle
    /\ punkt_ok \in BOOLEAN
    /\ documents \in QueryCorpora
    /\ encoder \in Encoders(documents, punkt_ok)
    /\ SessIdle

\* the loop of main, lines 206-225
NextQueries ==
    \/ ReadQuery
    \/ ReadQueryFails
    \/ MainHandler
    \/ Interrupt
    \/ Retrieve
    \/ NoMatch
    \/ FormatContext
    \/ Tokenize
    \/ Generate
    \/ Decode
    \/ Clean
    \/ CleanSwallowsInterrupt
    \/ GenStepFails
    \/ PrintAnswer
    \/ PrintAnswerFails
    \/ LoopBack

SpecQueries == InitQueries /\ [][NextQueries]_vars

\* ------------------------------------------------- the chunker on its own
Texts == SeqsUpTo(UnitLens, MaxUnits)

InitChunk ==
    /\ dlIdle
    /\ rsIdle
    /\ text \in Texts
    /\ chunk_size \in ChunkSizes
    /\ punkt_ok \in BOOLEAN
    /\ encoder = <<>>
    /\ split_pc = "call"
    /\ split_out = <<>>
    /\ documents = <<>>
    /\ RetrIdle
    /\ SessIdle

\* a call of split_into_chunks that returns
SplitReturn ==
    /\ split_pc = "call"
    /\ ~SplitRaises(text, chunk_size, punkt_ok)
    /\ split_out' = split_into_chunks(text, chunk_size, punkt_ok)
    /\ split_pc' = "returned"
    /\ UNCHANGED <<rsVars, dlVars, text, chunk_size, punkt_ok, encoder, documents, retrVars, sessVars>>

\* a call of split_into_chunks that ends in the ValueError of range()
SplitRaise ==
    /\ split_pc = "call"
    /\ SplitRaises(text, chunk_size, punkt_ok)
    /\ split_pc' = "raised"
    /\ UNCHANGED <<rsVars, dlVars, text, chunk_size, punkt_ok, encoder, split_out, documents, retrVars, sessVars>>

NextChunk == SplitReturn \/ SplitRaise

SpecChunk == InitChunk /\ [][NextChunk]_vars

\* --------------------------------------------- clean_response on its own
CleanPieces ==
    {Short, Long, Blank, Bell, Marker, Page, PageOpen, PageClose}

\* one sentence more than line 177 keeps
ManySentences ==
    [i \in 1..(2 * SENTENCE_CAP + 1) |-> IF i % 2 = 1 THEN Short ELSE Blank]

\* more characters than line 179 keeps
LongText ==
    <<Long, Blank, Long>>

\* the responses clean_response is called with: every string of at most
\* MaxClean pieces, alone or followed by ManySentences or by LongText
CleanInputs ==
    {head \o tail : head \in SeqsUpTo(CleanPieces, MaxClean),
                    tail \in {<<>>, ManySentences, LongText}}

\* the variables a call of clean_response or format_context leaves alone
textIdleVars ==
    <<chunkVars, documents, retrVars, gen_calls, gen_error, printed,
      main_error, corpus_file, user_query, input_calls, steps>>

TextIdle ==
    /\ documents = <<>>
    /\ ChunkIdle
    /\ RetrIdle
    /\ gen_calls = 0
    /\ gen_error = "none"
    /\ printed = <<>>
    /\ main_error = "none"
    /\ corpus_file = [state |-> "ok", docs |-> <<>>]
    /\ user_query = ""
    /\ input_calls = 0
    /\ steps = <<>>

InitClean ==
    /\ dlIdle
    /\ rsIdle
    /\ result \in CleanInputs
    /\ punkt_ok \in BOOLEAN
    /\ encoder = <<>>
    /\ pc = "CLEAN_CALL"
    /\ response = <<>>
    /\ context = <<>>
    /\ TextIdle

\* clean_response(result, query)
CleanCall ==
    /\ pc = "CLEAN_CALL"
    /\ response' = clean_response(result, punkt_ok)
    /\ pc' = "CLEANED"
    /\ UNCHANGED <<rsVars, dlVars, textIdleVars, punkt_ok, encoder, result, context>>

\* clean_response is called with what it returned
CleanAgain ==
    /\ pc = "CLEANED"
    /\ result' = response
    /\ response' = clean_response(response, punkt_ok)
    /\ pc' = "RECLEANED"
    /\ UNCHANGED <<rsVars, dlVars, textIdleVars, punkt_ok, encoder, context>>

NextClean == CleanCall \/ CleanAgain

SpecClean == InitClean /\ [][NextClean]_vars

\* --------------------------------------------- format_context on its own
\* the texts of the passages: empty, plain, and with a footnote marker and
\* page markers to remove
ContextTexts ==
    {<<>>, <<Short>>, <<Dots, Short, Page>>, <<Short, Blank, Page, Short>>}

\* the ranked passages format_context is called with
ContextInputs ==
    SeqsUpTo({[name |-> <<d, 1>>, text |-> t] : d \in 1..MaxDocs, t \in ContextTexts},
             MaxBlocks)

InitContext ==
    /\ dlIdle
    /\ rsIdle
    /\ relevant_docs \in ContextInputs
    /\ punkt_ok = TRUE
    /\ encoder = <<>>
    /\ pc = "FORMAT_CALL"
    /\ context = <<>>
    /\ result = <<>>
    /\ response = <<>>
    /\ documents = <<>>
    /\ ChunkIdle
    /\ query = "q1"
    /\ top_k = DEFAULT_TOP_K
    /\ chunks = <<>>
    /\ similarities = <<>>
    /\ top_indices = <<>>
    /\ enc_calls = <<>>
    /\ retr_error = "none"
    /\ retr_pc = "returned"
    /\ gen_calls = 0
    /\ gen_error = "none"
    /\ printed = <<>>
    /\ main_error = "none"
    /\ corpus_file = [state |-> "ok", docs |-> <<>>]
    /\ user_query = ""
    /\ input_calls = 0
    /\ steps = <<>>

\* format_context(relevant_docs)
FormatCall ==
    /\ pc = "FORMAT_CALL"
    /\ context' = format_context(relevant_docs)
    /\ pc' = "FORMATTED"
    /\ UNCHANGED <<rsVars, dlVars, textIdleVars, punkt_ok, encoder, result, response>>

NextContext == FormatCall

SpecContext == InitContext /\ [][NextContext]_vars

\* --------------------------------------- FileDownloader (FileDownloader.py)
\* A file of the batch is its position in the rows fetched from the
\* database; the download directory holds for each name no file, an empty
\* file, a file with a part of the content, or the whole file.
DiskStates == {"absent", "empty", "partial", "full"}

\* what download_file does when the file is not in the directory (lines
\* 57-67): requests.get or raise_for_status raises; open raises; the writing
\* raises with nothing or with a part written; or all is written
Attempts == {"http", "open", "write_empty", "write_partial", "ok"}

\* the file a failed or finished attempt leaves in the directory
Written(attempt) ==
    CASE attempt \in {"http", "open"} -> "absent"
      [] attempt = "write_empty" -> "empty"
      [] attempt = "write_partial" -> "partial"
      [] attempt = "ok" -> "full"

\* file_path.exists() (line 51); f.is_file() (line 143)
Exists(state) ==
    state # "absent"

\* a handler that lets the exception of one file end the batch
BatchHandlerAborts == "aborted"

\* except Exception: logger.error(...), and on to the next file (lines 88-89
\* and 176-183)
BatchHandlerOutcome == "continue"

Files == 1..Len(dl_files)

\* the position of the batch after the handling of file f
AfterFile(raised, last) ==
    IF raised /\ BatchHandlerOutcome # "continue" THEN BatchHandlerOutcome
    ELSE IF last THEN "done"
    ELSE dl_pc

InitDownload ==
    /\ \E n \in 1..MaxFiles :
         /\ dl_files = [i \in 1..n |-> i]
         /\ dl_disk \in [1..n -> DiskStates]
         /\ dl_outcome = [i \in 1..n |-> "none"]
    /\ dl_disk0 = dl_disk
    /\ dl_mode \in {"download_files", "process_files"}
    /\ dl_pc = "start"
    /\ dl_next = 1
    /\ dl_pending = {}
    /\ dl_requests = {}
    /\ dl_errors = <<>>
    /\ dl_prev = "none"
    /\ rsIdle
    /\ documents = <<>>
    /\ punkt_ok = TRUE
    /\ encoder = <<>>
    /\ ChunkIdle
    /\ RetrIdle
    /\ SessIdle

\* download_files, lines 70-80: the rows are fetched and the loop begins
StartDownloadFiles ==
    /\ dl_pc = "start"
    /\ dl_mode = "download_files"
    /\ dl_pc' = "loop"
    /\ UNCHANGED <<dl_files, dl_mode, dl_disk, dl_disk0, dl_next, dl_pending,
                   dl_outcome, dl_requests, dl_errors, dl_prev>>
    /\ UNCHANGED <<chunkVars, punkt_ok, encoder, documents, retrVars, sessVars, rsVars>>

\* download_files, lines 81-89, one iteration: download_file(file_url,
\* file_name) returns at once when the file exists (lines 51-53), else it
\* makes the request and writes the file (lines 57-64); what it raises is
\* logged at line 89 and the loop goes on
DownloadNext ==
    /\ dl_pc = "loop"
    /\ LET f == dl_next
           last == dl_next = Len(dl_files)
       IN  /\ dl_next' = dl_next + 1
           /\ IF Exists(dl_disk[f])
              THEN /\ dl_outcome' = [dl_outcome EXCEPT ![f] = "skipped"]
                   /\ dl_pc' = AfterFile(FALSE, last)
                   /\ UNCHANGED <<dl_disk, dl_requests, dl_errors>>
              ELSE \E attempt \in Attempts :
                     /\ dl_requests' = dl_requests \cup {f}
                     /\ dl_disk' = [dl_disk EXCEPT ![f] = Written(attempt)]
                     /\ IF attempt = "ok"
                        THEN /\ dl_outcome' = [dl_outcome EXCEPT ![f] = "ok"]
                             /\ dl_pc' = AfterFile(FALSE, last)
                             /\ UNCHANGED dl_errors
                        ELSE /\ dl_outcome' = [dl_outcome EXCEPT ![f] = "raised"]
                             /\ dl_pc' = AfterFile(TRUE, last)
                             /\ dl_errors' = Append(dl_errors, f)
    /\ UNCHANGED <<dl_files, dl_mode, dl_disk0, dl_pending, dl_prev>>
    /\ UNCHANGED <<chunkVars, punkt_ok, encoder, documents, retrVars, sessVars, rsVars>>

\* process_files, lines 143-160: the files whose name is in the directory
\* are counted as skipped, the others are submitted to the pool. (Lines
\* 130-135 call get_db_connection and read allowed_extensions, which the
\* class in this file does not define; the rows are taken as fetched.)
StartProcessFiles ==
    /\ dl_pc = "start"
    /\ dl_mode = "process_files"
    /\ LET todo == {f \in Files : ~Exists(dl_disk[f])}
       IN  /\ dl_pending' = todo
           /\ dl_outcome' = [f \in Files |-> IF f \in todo THEN "none" ELSE "skipped"]
           /\ dl_pc' = IF todo = {} THEN "done" ELSE "pool"
    /\ UNCHANGED <<dl_files, dl_mode, dl_disk, dl_disk0, dl_next, dl_requests,
                   dl_errors, dl_prev>>
    /\ UNCHANGED <<chunkVars, punkt_ok, encoder, documents, retrVars, sessVars, rsVars>>

\* process_files, lines 162-183: as_completed yields the futures in the
\* order in which the workers finish. The call submitted at line 158,
\* self.download_file(file), lacks the file_name argument of line 45, so it
\* raises TypeError before download_file does anything; future.result()
\* raises it again and lines 176-183 record it for that file
PoolComplete ==
    /\ dl_pc = "pool"
    /\ \E f \in dl_pending :
         /\ dl_pending' = dl_pending \ {f}
         /\ dl_outcome' = [dl_outcome EXCEPT ![f] = "raised"]
         /\ dl_errors' = Append(dl_errors, f)
         /\ dl_pc' = AfterFile(TRUE, dl_pending = {f})
    /\ UNCHANGED <<dl_files, dl_mode, dl_disk, dl_disk0, dl_next, dl_requests, dl_prev>>
    /\ UNCHANGED <<chunkVars, punkt_ok, encoder, documents, retrVars, sessVars, rsVars>>

\* the batch is run again over the directory as the last run left it
RunAgain ==
    /\ dl_pc = "done"
    /\ dl_prev = "none"
    /\ dl_prev' = IF \A f \in Files : dl_outcome[f] \in {"ok", "skipped"}
                  THEN "ok" ELSE "failed"
    /\ dl_disk0' = dl_disk
    /\ dl_outcome' = [f \in Files |-> "none"]
    /\ dl_next' = 1
    /\ dl_pending' = {}
    /\ dl_requests' = {}
    /\ dl_errors' = <<>>
    /\ dl_pc' = "start"
    /\ UNCHANGED <<dl_files, dl_mode, dl_disk>>
    /\ UNCHANGED <<chunkVars, punkt_ok, encoder, documents, retrVars, sessVars, rsVars>>

NextDownload ==
    \/ StartDownloadFiles
    \/ DownloadNext
    \/ StartProcessFiles
    \/ PoolComplete
    \/ RunAgain

SpecDownload == InitDownload /\ [][NextDownload]_vars

\* ------------------------------------- execute_restoration_sequence
\* the two files that define the function and DatabaseRestorer
Restorers == {"RestoreDb", "ResroreDb"}

\* what a dump is like when restore_database gets it: "ok" restores with exit
\* status 0; "missing" is no file; "invalid" fails pg_restore --list; "failed"
\* makes pg_restore end with another status; "error" makes subprocess.run of
\* the restoration raise something other than CalledProcessError;
\* "list_error" makes subprocess.run of the listing raise such an exception.
\* ResroreDb.py does not list the dump, so there an invalid dump is one that
\* fails.
DumpKinds(r) ==
    IF r = "RestoreDb"
    THEN {"ok", "missing", "invalid", "failed", "error", "list_error"}
    ELSE {"ok", "missing", "failed", "error"}

\* DatabaseRestorer.restore_database(dump_path): what it returns, or "raised"
\* (RestoreDb.py lines 98-161, ResroreDb.py lines 59-107)
restore_database(r, kind) ==
    CASE kind = "ok" -> "True"
      [] kind \in {"missing", "invalid", "failed"} -> "False"
      [] kind = "list_error" -> "raised"
      [] kind = "error" -> IF r = "RestoreDb" THEN "False" ELSE "raised"

\* a loop that goes on to the next dump after a failure
AfterFailureContinues == "loop"

\* break (line 225 of RestoreDb.py, line 168 of ResroreDb.py)
AfterFailure == "break"

InitRestore ==
    /\ dlIdle
    /\ restorer \in Restorers
    /\ dumps \in SeqsUpTo(DumpKinds(restorer), MaxDumps)
    /\ success = TRUE
    /\ rs_next = 1
    /\ rs_pc = "loop"
    /\ rs_calls = <<>>
    /\ rs_return = TRUE
    /\ documents = <<>>
    /\ punkt_ok = TRUE
    /\ encoder = <<>>
    /\ ChunkIdle
    /\ RetrIdle
    /\ SessIdle

\* one iteration of the for loop: restore_database(dump), and on a false
\* result success = False and break; an exception leaves the function
RestoreNext ==
    /\ rs_pc = "loop"
    /\ rs_next <= Len(dumps)
    /\ LET outcome == restore_database(restorer, dumps[rs_next])
       IN  /\ rs_calls' = Append(rs_calls, [dump |-> rs_next, outcome |-> outcome])
           /\ rs_next' = rs_next + 1
           /\ CASE outcome = "raised" -> rs_pc' = "raised" /\ UNCHANGED success
                [] outcome = "True" -> UNCHANGED <<rs_pc, success>>
                [] outcome = "False" -> success' = FALSE /\ rs_pc' = AfterFailure
    /\ UNCHANGED <<restorer, dumps, rs_return>>
    /\ UNCHANGED <<chunkVars, punkt_ok, encoder, documents, retrVars, sessVars, dlVars>>

\* return success, after the last dump or after break
RestoreReturn ==
    /\ \/ rs_pc = "loop" /\ rs_next > Len(dumps)
       \/ rs_pc = "break"
    /\ rs_return' = success
    /\ rs_pc' = "returned"
    /\ UNCHANGED <<restorer, dumps, success, rs_next, rs_calls>>
    /\ UNCHANGED <<chunkVars, punkt_ok, encoder, documents, retrVars, sessVars, dlVars>>

NextRestore ==
    \/ RestoreNext
    \/ RestoreReturn

SpecRestore == InitRestore /\ [][NextRestore]_vars

\* ================================================================ claims
\* --------------------------------------------------- claims on the chunker
\* C6 (as stated): every passage split_into_chunks returns has a joined
\* length of at most chunk_size, the blanks between its units counted, unless
\* it is a single unit that is itself longer than chunk_size.
C6_PassageWithinSize ==
    split_pc = "returned" =>
        \A i \in 1..Len(split_out) :
            \/ JoinedLen(split_out[i]) <= chunk_size
            \/ Len(split_out[i]) = 1 /\ split_out[i][1].len > chunk_size

\* C7: the units of the returned passages, read in passage order, are exactly
\* the units the text was segmented into, and no returned passage is empty.
C7_UnitsPreserved ==
    split_pc = "returned" =>
        /\ Flatten(split_out) = Segment(text, chunk_size, punkt_ok)
        /\ \A i \in 1..Len(split_out) : JoinedLen(split_out[i]) > 0

\* C7 witness: a call that returned several passages, one of them joined
\* from several units after an overflow closed the passage before it.
C7_Witness ==
    /\ split_pc = "returned"
    /\ punkt_ok
    /\ Len(split_out) >= 3
    /\ \E i \in 2..Len(split_out) : Len(split_out[i]) >= 2
    /\ \E i \in 1..Len(split_out) : split_out[i][1].len > chunk_size

\* C21: split_into_chunks is greedy. For every two consecutive passages it
\* returns, the running length of the earlier one (the sum of the lengths of
\* its units, as current_length counts it) plus the length of the first unit
\* of the later one exceeds chunk_size; no passage is empty, and a first unit
\* longer than chunk_size starts the first passage.
C21_GreedyChunks ==
    split_pc = "returned" =>
        /\ \A i \in 1..(Len(split_out) - 1) :
               SumLen(split_out[i]) + split_out[i + 1][1].len > chunk_size
        /\ \A i \in 1..Len(split_out) : split_out[i] # <<>>
        /\ LET sents == Segment(text, chunk_size, punkt_ok)
           IN  (sents # <<>> /\ sents[1].len > chunk_size) =>
                   split_out[1][1] = sents[1]

\* C21 witness: a call whose first unit is longer than chunk_size returned
\* that unit at the head of the first passage, closed the passage at the next
\* unit, and later kept several units together while they fitted.
C21_Witness ==
    /\ split_pc = "returned"
    /\ chunk_size > 0
    /\ Len(split_out) >= 3
    /\ split_out[1][1].len > chunk_size
    /\ \E i \in 2..Len(split_out) :
           Len(split_out[i]) >= 2 /\ SumLen(split_out[i]) <= chunk_size

\* ------------------------------------------------- claims on the retriever
\* the pool was built to the end and every passage of it was scored
Scored ==
    /\ retr_pc = "returned"
    /\ retr_error = "none"
    /\ chunks # <<>>
    /\ Len(similarities) = Len(chunks)

\* the position in the pool of a passage (labels are unique in the pool)
PoolIndex(p) ==
    CHOOSE j \in 1..Len(chunks) : chunks[j].name = p.name

\* the score of the i-th passage of the result
ResultScore(i) ==
    similarities[PoolIndex(relevant_docs[i])]

AllBelowThreshold ==
    \A j \in 1..Len(similarities) : similarities[j] < THRESHOLD

\* C1: when the highest score over the whole pool is below 0.25,
\* get_relevant_docs returns an empty result and generate_response returns the
\* not-found answer, which main prints.
C1_LowConfidenceIsNotFound ==
    (Scored /\ AllBelowThreshold) =>
        /\ relevant_docs = <<>>
        /\ pc \notin {"CONTEXT", "TOKENIZE", "GENERATE", "DECODE", "CLEANING"}
        /\ pc = "RETURNED" => response = NOT_FOUND
        /\ (pc = "AWAIT_QUERY" /\ main_error = "none" /\ printed # <<>>) =>
               printed = <<NOT_FOUND>>

\* C1 witness: a pool of several scored passages, all below the threshold, and
\* generate_response has returned the not-found answer.
C1_Witness ==
    /\ Scored
    /\ AllBelowThreshold
    /\ Len(chunks) >= 2
    /\ pc = "RETURNED"
    /\ response = NOT_FOUND

\* C2 (as stated): for every top_k >= 0 the result has at most top_k
\* passages and their scores are non-increasing along the result.
C2_AtMostTopKNonIncreasing ==
    retr_pc = "returned" =>
        /\ Len(relevant_docs) <= top_k
        /\ \A i \in 1..(Len(relevant_docs) - 1) : ResultScore(i) >= ResultScore(i + 1)

\* C3 (as stated, for a top_k of 1 or more): of two returned passages
\* with equal scores the one earlier in the pool comes first, and a passage
\* left out of the result never has the score of a returned passage that
\* comes later in the pool.
C3_StableTies ==
    (Scored /\ relevant_docs # <<>> /\ top_k >= 1) =>
        /\ \A i, j \in 1..Len(relevant_docs) :
             (i < j /\ ResultScore(i) = ResultScore(j)) =>
                 PoolIndex(relevant_docs[i]) < PoolIndex(relevant_docs[j])
        /\ \A i \in 1..Len(relevant_docs) : \A m \in 1..Len(chunks) :
             (similarities[m] = ResultScore(i)
              /\ \A j \in 1..Len(relevant_docs) : PoolIndex(relevant_docs[j]) # m) =>
                 PoolIndex(relevant_docs[i]) < m

\* the pool of the loaded documents is empty
EmptyPool ==
    BuildPool(documents, punkt_ok) = <<>>

\* C4 (as stated): with an empty pool, and no step failing, get_relevant_docs
\* returns an empty result and has called the encoder neither for the query
\* nor for passages.
C4_NoEncoderCallOnEmptyPool ==
    (retr_pc = "returned" /\ retr_error = "none" /\ EmptyPool) =>
        /\ relevant_docs = <<>>
        /\ enc_calls = <<>>

\* C4 (amended): with an empty pool get_relevant_docs returns an empty
\* result without encoding any passages; the one encoder call it has made is
\* the encoding of the query, which comes before the pool is built.
C4_NoPassageEncodingOnEmptyPool ==
    (retr_pc = "returned" /\ EmptyPool) =>
        /\ relevant_docs = <<>>
        /\ enc_calls = <<"query">>

\* C4 witness: a corpus of documents that yield no passage, and the call
\* returned at lines 79-80.
C4_Witness ==
    /\ retr_pc = "returned"
    /\ retr_error = "none"
    /\ documents # <<>>
    /\ EmptyPool
    /\ relevant_docs = <<>>
    /\ enc_calls = <<"query">>

\* the passages of the pool that come from document d, in pool order
PassagesOf(d) ==
    LET FromD(p) == p.name[1] = documents[d].name
    IN  SelectSeq(chunks, FromD)

\* the pool was built to the end
PoolBuilt ==
    /\ retr_pc = "returned"
    /\ retr_error \notin {"encode_query", "chunking"}

\* C5: the pool holds at most 5 passages of every document, and they are the
\* first 5 passages of the chunker for that document, in order.
C5_FirstFivePerDocument ==
    PoolBuilt =>
        \A d \in 1..Len(documents) :
            LET all == split_into_chunks(documents[d].text, DEFAULT_CHUNK_SIZE, punkt_ok)
                mine == PassagesOf(d)
            IN  /\ Len(mine) <= 5
                /\ Len(mine) = IF Len(all) < 5 THEN Len(all) ELSE 5
                /\ \A i \in 1..Len(mine) :
                     mine[i].text = all[i] /\ mine[i].name[2] = i

\* C5 witness: a document that the chunker splits into more than 5 passages,
\* 5 of which are in the pool.
C5_Witness ==
    /\ PoolBuilt
    /\ \E d \in 1..Len(documents) :
         /\ Len(split_into_chunks(documents[d].text, DEFAULT_CHUNK_SIZE, punkt_ok)) > 5
         /\ Len(PassagesOf(d)) = 5

\* C8: get_relevant_docs never raises: a failure of any step ends in the
\* empty result being returned.
C8_RetrieverNeverRaises ==
    /\ retr_pc # "raised"
    /\ retr_error # "none" => (retr_pc = "returned" /\ relevant_docs = <<>>)

\* C8 witness: the scoring of a non-empty pool raised and the call returned
\* the empty result.
C8_Witness ==
    /\ retr_pc = "returned"
    /\ retr_error = "dot"
    /\ chunks # <<>>
    /\ relevant_docs = <<>>

\* --------------------------------------------- claims on generate_response
\* C9: generate_response never raises: when the retrieval result is not
\* empty and a later step fails, the answer is the error string, and main
\* catches no exception of generate_response.
C9_GenerateResponseNeverRaises ==
    /\ main_error # "generate_response"
    /\ (pc = "RETURNED" /\ relevant_docs # <<>> /\ gen_error # "none") =>
           response = ERROR_MSG
    /\ gen_error # "none" =>
           pc \in {"RETURNED", "RESPONDED", "AWAIT_QUERY", "EXITED", "HANDLER"}

\* C9 witness: model.generate raised after a non-empty retrieval and
\* generate_response returned the error string.
C9_Witness ==
    /\ pc = "RETURNED"
    /\ relevant_docs # <<>>
    /\ gen_error = "GENERATE"
    /\ response = ERROR_MSG

\* the confidence gate closed on a scored pool
GateFailed ==
    /\ Scored
    /\ top_indices # <<>>
    /\ similarities[top_indices[1]] < THRESHOLD

\* C10 (as stated): the two strings differ; the answer is the not-found
\* string only when the gate failed or the pool was empty, so never because
\* the encoder or another step failed on a pool that has passages; it is the
\* error string only when a step of the generation failed.
C10_NonAnswersNotConflated ==
    /\ NOT_FOUND # ERROR_MSG
    /\ (pc = "RETURNED" /\ response = NOT_FOUND) => (GateFailed \/ EmptyPool)
    /\ (pc = "RETURNED" /\ response = ERROR_MSG) => gen_error # "none"

\* ------------------------------------------------ claims on the session loop
\* the states of the session loop that the positions of main and
\* generate_response stand for; the return statement of generate_response
\* still belongs to the state that runs it
SessionState ==
    CASE pc \in {"CONTEXT", "TOKENIZE", "GENERATE", "DECODE"} -> "GENERATING"
      [] pc = "RETURNED" ->
            IF steps # <<>> /\ steps[Len(steps)] = "clean_response" THEN "CLEANING"
            ELSE IF steps = <<"get_relevant_docs">> /\ gen_error = "none" THEN "NO_MATCH"
            ELSE "GENERATING"
      [] OTHER -> pc

QueryStates ==
    {"AWAIT_QUERY", "RETRIEVING", "NO_MATCH", "GENERATING", "CLEANING", "RESPONDED"}

\* a step of the loop from one state of a query to another one
StateChange(a, b) ==
    /\ SessionState = a
    /\ SessionState' = b

\* C11 (as stated): the states follow each other in the order AWAIT_QUERY,
\* RETRIEVING, then NO_MATCH or GENERATING, then CLEANING, then RESPONDED, then
\* AWAIT_QUERY again, so RESPONDED is entered from CLEANING only.
C11_StatesInClaimedOrder ==
    [][\A a, b \in QueryStates :
         (a # b /\ StateChange(a, b)) =>
            <<a, b>> \in {<<"AWAIT_QUERY", "RETRIEVING">>,
                          <<"RETRIEVING", "NO_MATCH">>,
                          <<"RETRIEVING", "GENERATING">>,
                          <<"NO_MATCH", "CLEANING">>,
                          <<"GENERATING", "CLEANING">>,
                          <<"CLEANING", "RESPONDED">>,
                          <<"RESPONDED", "AWAIT_QUERY">>}]_vars

\* C11 (amended): the states follow each other in the order AWAIT_QUERY,
\* RETRIEVING, then NO_MATCH or GENERATING; NO_MATCH goes straight to
\* RESPONDED, GENERATING goes to CLEANING and then RESPONDED, or straight to
\* RESPONDED when one of its steps failed; RESPONDED goes back to AWAIT_QUERY.
C11_StatesInOrder ==
    [][\A a, b \in QueryStates :
         (a # b /\ StateChange(a, b)) =>
            \/ <<a, b>> \in {<<"AWAIT_QUERY", "RETRIEVING">>,
                             <<"RETRIEVING", "NO_MATCH">>,
                             <<"RETRIEVING", "GENERATING">>,
                             <<"NO_MATCH", "RESPONDED">>,
                             <<"GENERATING", "CLEANING">>,
                             <<"CLEANING", "RESPONDED">>,
                             <<"RESPONDED", "AWAIT_QUERY">>}
            \/ <<a, b>> = <<"GENERATING", "RESPONDED">> /\ gen_error # "none"]_vars

\* C11 witness: the answer of a query with no match was printed, and
\* clean_response was not called for it.
C11_Witness ==
    /\ pc = "RESPONDED"
    /\ chunks # <<>>
    /\ steps = <<"get_relevant_docs">>
    /\ response = NOT_FOUND
    /\ printed = <<NOT_FOUND>>


\* the positions of main inside the loop of lines 206-225
LoopPositions ==
    Interruptible \cup {"CLEANING", "HANDLER"}

\* what C12 asks of one step taken inside the loop
LoopStepAllowed ==
    /\ pc' \in LoopPositions \cup {"EXITED"}
    /\ pc' = "EXITED" =>
         \/ main_error' = "KeyboardInterrupt"
         \/ /\ pc = "AWAIT_QUERY"
            /\ user_query' = ""
            /\ input_calls' = input_calls + 1
            /\ UNCHANGED <<retrVars, steps, gen_calls>>
    /\ (pc = "AWAIT_QUERY" /\ pc' # "HANDLER" /\ main_error' # "KeyboardInterrupt") =>
         (user_query' = "" <=> pc' = "EXITED")
    /\ (pc = "RETURNED" /\ pc' # "EXITED") => pc' \in {"RESPONDED", "HANDLER"}
    /\ (pc \in {"RESPONDED", "HANDLER"} /\ pc' # "EXITED") => pc' = "AWAIT_QUERY"

LoopNotEntered ==
    /\ input_calls = 0
    /\ enc_calls = <<>>
    /\ steps = <<>>
    /\ gen_calls = 0
    /\ user_query = ""

\* C13: when the corpus file is missing, malformed or unreadable, or the
\* encoder or the generator fails to load, main has returned before the loop:
\* no line was read and no retrieval or generation was run.
C13_StartupFailureIsFatal ==
    /\ main_error \in StartupFailures => (pc = "ABORTED" /\ LoopNotEntered)
    /\ corpus_file.state # "ok" => (pc \in {"LOAD_CORPUS", "ABORTED"} /\ LoopNotEntered)
    /\ pc = "ABORTED" => main_error \in StartupFailures

\* C13 witness: the corpus was loaded, the generator failed to load, and main
\* returned.
C13_Witness ==
    /\ pc = "ABORTED"
    /\ corpus_file.state = "ok"
    /\ documents # <<>>
    /\ main_error = "init_llm"
    /\ LoopNotEntered

\* generate_response has returned for the current query
Returned ==
    /\ pc \in {"RETURNED", "RESPONDED"}
    /\ retr_pc = "returned"

\* no prompt was built, nothing was tokenized, the model was not called
NothingGenerated ==
    /\ gen_calls = 0
    /\ steps = <<"get_relevant_docs">>
    /\ context = <<>>
    /\ result = <<>>

\* C14 (as stated): when generate_response has returned, model.generate was
\* called exactly once if the retrieval result is not empty, and never if it
\* is empty, in which case the answer is the not-found string and no prompt
\* was built and nothing tokenized.
C14_GeneratorOncePerMatch ==
    Returned =>
        IF relevant_docs # <<>> THEN gen_calls = 1
        ELSE NothingGenerated /\ response = NOT_FOUND

\* C14 (amended): model.generate is called at most once per query; exactly
\* once when the retrieval result is not empty and neither format_context nor
\* the tokenizer raised before it; never when the result is empty, in which
\* case the answer is the not-found string and no prompt was built and
\* nothing tokenized.
C14_GeneratorAtMostOncePerMatch ==
    /\ gen_calls <= 1
    /\ Returned =>
         IF relevant_docs # <<>>
         THEN gen_calls = IF gen_error \in {"CONTEXT", "TOKENIZE"} THEN 0 ELSE 1
         ELSE NothingGenerated /\ response = NOT_FOUND

\* C14 witness: the tokenizer raised after a retrieval with results, so
\* generate_response returned without a call of model.generate.
C14_Witness ==
    /\ Returned
    /\ relevant_docs # <<>>
    /\ gen_error = "TOKENIZE"
    /\ gen_calls = 0
    /\ response = ERROR_MSG


\* ------------------------------------------------ claims on clean_response
\* C15 (as stated): clean_response applied to what clean_response returned
\* returns it unchanged.
C15_CleanIdempotent ==
    pc = "RECLEANED" => response = result

\* a is b cut after some number of characters
IsCharPrefix(a, b) ==
    LET n == Len(a)
    IN  /\ n <= Len(b)
        /\ \A i \in 1..(n - 1) : a[i] = b[i]
        /\ n > 0 => (a[n].ch = b[n].ch /\ a[n].len <= b[n].len)

\* C16: when the sentences can be told apart, the sentences of the output
\* are the first 10 at most of the sentences of the input as the removal of
\* the marker and of the page markers left it, in their order; when
\* sent_tokenize fails, the output is that input cut after 1000 characters
\* at most.
C16_CleanBounded ==
    pc \in {"CLEANED", "RECLEANED"} =>
        IF punkt_ok
        THEN LET ins == Sentences(Stripped(result))
                 outs == Sentences(response)
             IN  /\ Len(outs) <= 10
                 /\ Len(outs) = IF Len(ins) < 10 THEN Len(ins) ELSE 10
                 /\ \A i \in 1..Len(outs) : outs[i] = ins[i]
        ELSE /\ CharLen(response) <= 1000
             /\ IsCharPrefix(response, Stripped(result))
             /\ CharLen(Stripped(result)) <= 1000 => response = Stripped(result)

\* C16 witness: a response with a role marker, a page marker and more than
\* 10 sentences, of which the first 10 were returned.
C16_Witness ==
    /\ pc = "CLEANED"
    /\ punkt_ok
    /\ HasMarker(result)
    /\ \E i \in 1..Len(result) : result[i] = Page
    /\ Len(Sentences(Stripped(result))) > 10
    /\ Len(Sentences(response)) = 10

\* C17 (as stated): what clean_response returns holds no control character
\* and neither begins nor ends with white space.
C17_CleanNoControlNoOuterBlank ==
    pc = "CLEANED" =>
        /\ \A i \in 1..Len(response) : response[i] # Bell
        /\ response # <<>> => (response[1] # Blank /\ response[Len(response)] # Blank)

\* ------------------------------------------------ claims on format_context
\* the text of a passage without its footnote and page markers
WithoutArtifacts(t) ==
    LET Kept(p) == p \notin {Dots, Page}
    IN  SelectSeq(t, Kept)

RECURSIVE ExpectedContext(_, _)
\* one block per passage, in order, a blank line between two blocks; a
\* block is the label, ':', a newline and the cleaned text, after the icon
\* if there is one
ExpectedContext(cs, icon) ==
    IF cs = <<>> THEN <<>>
    ELSE LET n == Len(cs)
             blk == (IF icon THEN <<DocIcon>> ELSE <<>>)
                        \o <<Label(cs[n].name), ColonNewline>>
                        \o WithoutArtifacts(cs[n].text)
         IN  IF n = 1 THEN blk
             ELSE ExpectedContext(SubSeq(cs, 1, n - 1), icon) \o <<BlankLine>> \o blk

\* C18 (as stated): the context is one block per ranked passage, in the
\* order of the result, each block being the label of the passage, ':', a
\* newline and the cleaned text, with a blank line between blocks; it is the
\* empty string for an empty result.
C18_ContextAsClaimed ==
    pc = "FORMATTED" => context = ExpectedContext(relevant_docs, FALSE)

\* C18 (amended): the same, each block beginning with the document icon and
\* a blank, before the label.
C18_ContextBlocks ==
    pc = "FORMATTED" =>
        /\ context = ExpectedContext(relevant_docs, TRUE)
        /\ relevant_docs = <<>> => context = <<>>
        /\ Cardinality({i \in 1..Len(context) : context[i] = DocIcon}) = Len(relevant_docs)
        /\ \A i \in 1..Len(context) : context[i] \notin {Dots, Page}

\* C18 witness: a result of several passages, one of them with a footnote
\* marker and a page marker in its text, was formatted.
C18_Witness ==
    /\ pc = "FORMATTED"
    /\ Len(relevant_docs) >= 2
    /\ relevant_docs[1].name # relevant_docs[2].name
    /\ \E i \in 1..Len(relevant_docs) :
         \E j, k \in 1..Len(relevant_docs[i].text) :
            relevant_docs[i].text[j] = Dots /\ relevant_docs[i].text[k] = Page
    /\ context # <<>>


\* ------------------------------------------------ claims on the downloader
\* the files an error was recorded for
Recorded ==
    {dl_errors[i] : i \in 1..Len(dl_errors)}

C20_SkipsOnlyNonEmptyFiles ==
    /\ \A f \in Files :
         dl_outcome[f] # "none" =>
            /\ dl_disk0[f] \in {"partial", "full"} =>
                  (dl_outcome[f] = "skipped" /\ f \notin dl_requests
                   /\ dl_disk[f] = dl_disk0[f])
            /\ dl_disk0[f] = "empty" => dl_outcome[f] # "skipped"
    /\ (dl_prev = "ok" /\ dl_pc = "done") => (dl_requests = {} /\ dl_disk = dl_disk0)

\* ------------------------------------------- claims on a run of queries
\* get_relevant_docs was called for the query the loop is at
Retrieved ==
    steps # <<>>

\* top is a ranking of the pool by the scores sim: the k best positions (all
\* of them when the pool is smaller), best first
RanksPool(top, sim, k) ==
    /\ Len(top) = Min(k, Len(sim))
    /\ \A i \in 1..Len(top) : top[i] \in 1..Len(sim)
    /\ \A i, j \in 1..Len(top) : i < j => top[i] # top[j] /\ sim[top[i]] >= sim[top[j]]
    /\ \A p \in 1..Len(sim) :
           (\A i \in 1..Len(top) : top[i] # p) => sim[p] <= sim[top[Len(top)]]

\* C22: after any sequence of queries the documents of the session are the
\* ones loaded at start-up, and what get_relevant_docs returned for the query
\* the loop is at is fixed by that query, those documents and the weights of
\* the retriever: nothing when a step failed, when the documents have no
\* passage or when the best score of the query is below the threshold, else
\* the passages of the documents ranked by the scores of the query.
C22_DocumentsAndRetrievalStable ==
    /\ documents = corpus_file.docs
    /\ Retrieved =>
          LET pool == BuildPool(documents, punkt_ok)
              sim == encoder[query]
          IN  /\ pc # "EXITED" => query = user_query
              /\ retr_error # "none" => relevant_docs = <<>>
              /\ retr_error = "none" => chunks = pool
              /\ (retr_error = "none" /\ pool = <<>>) => relevant_docs = <<>>
              /\ (retr_error = "none" /\ pool # <<>>) =>
                    /\ similarities = sim
                    /\ RanksPool(top_indices, sim, DEFAULT_TOP_K)
                    /\ relevant_docs =
                          IF sim[top_indices[1]] >= THRESHOLD
                          THEN [i \in 1..Len(top_indices) |-> pool[top_indices[i]]]
                          ELSE <<>>

\* C22 witness: the second query of a session was answered with the two
\* passages found for it, although the weights give the other query no
\* passage that reaches the threshold.
C22_Witness ==
    /\ pc = "RESPONDED"
    /\ input_calls = 2
    /\ retr_error = "none"
    /\ Len(relevant_docs) = 2
    /\ \E q \in Queries \ {query} :
           \A p \in 1..Len(encoder[q]) : encoder[q][p] < THRESHOLD

\* ------------------------------------------------ claims on the restorer
\* restore_database returned True for the k-th call
Restored(k) ==
    rs_calls[k].outcome = "True"

\* C23: execute_restoration_sequence calls restore_database for the dumps in
\* list order, one call each; every call but the last one made has restored
\* its dump, so nothing is attempted after a failure; and when the function
\* returns, it returns True exactly when every dump of the list was restored
\* (True for an empty list).
C23_RestoresInOrderUntilFailure ==
    /\ Len(rs_calls) <= Len(dumps)
    /\ \A k \in 1..Len(rs_calls) : rs_calls[k].dump = k
    /\ \A k \in 1..(Len(rs_calls) - 1) : Restored(k)
    /\ rs_pc = "returned" =>
          (rs_return <=>
              /\ Len(rs_calls) = Len(dumps)
              /\ \A k \in 1..Len(dumps) : Restored(k))

\* C23 witness: of three dumps the first was restored, the second failed and
\* the third, a dump that would restore, was never attempted, and the function
\* returned False.
C23_Witness ==
    /\ rs_pc = "returned"
    /\ ~rs_return
    /\ Len(dumps) = 3
    /\ Len(rs_calls) = 2
    /\ Restored(1)
    /\ ~Restored(2)
    /\ dumps[3] = "ok"

====
